---------------------------- MODULE Spec2Model ----------------------------
(***************************************************************************)
(* Model of summary.py, the libmtrace trace summariser.                    *)
(*                                                                         *)
(* A Python str is a sequence of one-character strings, so that slicing,   *)
(* re.split, re.search and str.rstrip are computed character by character. *)
(* A Python dict is a sequence of <<key, value>> pairs with unique keys,   *)
(* in insertion order.  A value that is a str or an int in the program is  *)
(* a record tagged with its Python type.                                   *)
(***************************************************************************)
EXTENDS Integers, Sequences, FiniteSets, TLC

VARIABLES
    pc,               \* "parse" (in the for loop), "summary", "done"
    exitCode,         \* -1 while running, 0 clean completion, 1 sys.exit(1) / uncaught exception
    out,              \* banners printed so far, in order
    echoed,           \* the lines printed under "Comments", in order
    reported,         \* <<address, value>> pairs printed under "Memory not released"
    listed,           \* backtrace keys printed under "Backtraces", in order
    status,           \* ParsingStatus
    thread_id, method, allocSize, address, currentBackTrace,
    comments,
    backtraces, mallocs, membt, symbols_map,
    filtCalls,        \* history: the symbols c++filt was run on, in order
    resolves,         \* history: the symbols resolve_symbol was called with, in order
    nlines,           \* history: number of lines read
    hashed,           \* history: the lines read that begin with '#', in order
    last,             \* history: the line read last, after line 84, and the branch that took it
    ev,               \* history: the call of the last thread line, and the tables before it
    block,            \* history: the frame lines read in the current backtrace block
    events            \* history: the events completed by ']', in order

vars == <<pc, exitCode, out, echoed, hashed, reported, listed, status, thread_id, method,
          allocSize, address, currentBackTrace, comments, backtraces, mallocs,
          membt, symbols_map, filtCalls, resolves, nlines, last, ev, block, events>>

-----------------------------------------------------------------------------
(* Bounds of the model. *)

MaxLines == 6
MaxGroupLines == 9
MaxLedgerLines == 9
MaxSortLines == 12
MaxFrameLines == 5
MaxCommentLines == 6

-----------------------------------------------------------------------------
(* Python values. *)

StrV(s) == [t |-> "str", s |-> s, n |-> 0]
IntV(n) == [t |-> "int", s |-> <<>>, n |-> n]

\* None, for the variables that otherwise hold a str
None == <<"<None>">>

Digits == {"0", "1", "2", "3", "4", "5", "6", "7", "8", "9"}
Whitespace == {" ", "\t", "\n", "\r"}

DigitVal(c) ==
    CASE c = "0" -> 0 [] c = "1" -> 1 [] c = "2" -> 2 [] c = "3" -> 3
      [] c = "4" -> 4 [] c = "5" -> 5 [] c = "6" -> 6 [] c = "7" -> 7
      [] c = "8" -> 8 [] c = "9" -> 9

RECURSIVE ParseInt(_)
\* int(s) of a non-empty string of decimal digits
ParseInt(s) ==
    IF Len(s) = 0 THEN 0
    ELSE 10 * ParseInt(SubSeq(s, 1, Len(s) - 1)) + DigitVal(s[Len(s)])

\* int(s) raises ValueError unless s is a non-empty digit string
IsInt(s) == Len(s) > 0 /\ \A i \in 1..Len(s) : s[i] \in Digits

RECURSIVE RStrip(_)
\* str.rstrip()
RStrip(s) ==
    IF Len(s) > 0 /\ s[Len(s)] \in Whitespace
    THEN RStrip(SubSeq(s, 1, Len(s) - 1))
    ELSE s

\* s[i:] with a 0-based start
Slice(s, start) == SubSeq(s, start + 1, Len(s))

StartsWith(s, p) == Len(s) >= Len(p) /\ SubSeq(s, 1, Len(p)) = p

\* the length of the longest run of digits of s that starts at 1-based position i
RECURSIVE DigitRun(_, _)
DigitRun(s, i) ==
    IF i <= Len(s) /\ s[i] \in Digits THEN 1 + DigitRun(s, i + 1) ELSE 0

-----------------------------------------------------------------------------
(* Python dicts. *)

DictHas(d, k) == \E i \in 1..Len(d) : d[i][1] = k
DictGet(d, k) == d[CHOOSE i \in 1..Len(d) : d[i][1] = k][2]
DictSet(d, k, v) ==
    IF DictHas(d, k)
    THEN [i \in 1..Len(d) |-> IF d[i][1] = k THEN <<k, v>> ELSE d[i]]
    ELSE Append(d, <<k, v>>)
DictDel(d, k) == SelectSeq(d, LAMBDA e : e[1] # k)
DictKeys(d) == {d[i][1] : i \in 1..Len(d)}

-----------------------------------------------------------------------------
(* The regular expressions of parse(), lines 98-168.  A match is a record  *)
(* [ok, g]: whether re.search matched, and match.group(1..) when it did.   *)

NoMatch == [ok |-> FALSE, g |-> <<>>]

\* the literal text of the patterns
P_star == <<"*", " ">>
P_malloc == <<"m", "a", "l", "l", "o", "c", "(">>
P_free == <<"f", "r", "e", "e", "(">>
P_realloc == <<"r", "e", "a", "l", "l", "o", "c", "(">>
P_calloc == <<"c", "a", "l", "l", "o", "c", "(">>
P_aligned_alloc == <<"a", "l", "i", "g", "n", "e", "d", "_", "a", "l", "l", "o", "c", "(">>
P_posix_memalign == <<"p", "o", "s", "i", "x", "_", "m", "e", "m", "a", "l", "i", "g", "n", "(">>
P_memalign == <<"m", "e", "m", "a", "l", "i", "g", "n", "(">>
P_comma == <<",", " ">>
P_eq == <<")", " ", "=", " ">>
P_thread == <<"T", "h", "r", "e", "a", "d", " ">>
NIL == <<"(", "n", "i", "l", ")">>
S_null == <<"n", "u", "l", "l">>
S_unknown == <<"?", "?", "?">>
ALREADY_FREED == <<"*", "*", "*", "A", "L", "R", "E", "A", "D", "Y", "_", "F", "R", "E", "E", "D", "*", "*">>
ALREADY_REALLOCED == <<"*", "*", "*", "A", "L", "R", "E", "A", "D", "Y", "_", "R", "E", "A", "L", "L", "O", "C", "E", "D", "*", "*", "*">>

\* re.findall(r'\d+', l): the first run of digits of l, << >> when l has no digit
FirstDigits(l) ==
    IF \E i \in 1..Len(l) : l[i] \in Digits
    THEN LET i == CHOOSE i \in 1..Len(l) :
                     /\ l[i] \in Digits
                     /\ \A j \in 1..(i - 1) : l[j] \notin Digits
         IN  SubSeq(l, i, i + DigitRun(l, i) - 1)
    ELSE <<>>

\* ^malloc\((\d*)\) = (.*)$
MatchMalloc(l) ==
    LET p == Len(P_malloc)
        d == DigitRun(l, p + 1)
    IN  IF StartsWith(l, P_malloc) /\ StartsWith(Slice(l, p + d), P_eq)
        THEN [ok |-> TRUE,
              g |-> <<SubSeq(l, p + 1, p + d), Slice(l, p + d + Len(P_eq))>>]
        ELSE NoMatch

\* ^free\((.*)\)$
MatchFree(l) ==
    IF StartsWith(l, P_free) /\ Len(l) > Len(P_free) /\ l[Len(l)] = ")"
    THEN [ok |-> TRUE, g |-> <<SubSeq(l, Len(P_free) + 1, Len(l) - 1)>>]
    ELSE NoMatch

\* ^realloc\((.*), (\d*)\) = (.*)$ : the first group is greedy, so it ends at
\* the last ", " that is followed by digits and ") = "
ReallocSplits(l) ==
    {j \in Len(P_realloc)..Len(l) :
        /\ StartsWith(Slice(l, j), P_comma)
        /\ StartsWith(Slice(l, j + 2 + DigitRun(l, j + 3)), P_eq)}

MatchRealloc(l) ==
    IF StartsWith(l, P_realloc) /\ ReallocSplits(l) # {}
    THEN LET j == CHOOSE j \in ReallocSplits(l) : \A k \in ReallocSplits(l) : k <= j
             d == DigitRun(l, j + 3)
         IN  [ok |-> TRUE,
              g |-> <<SubSeq(l, Len(P_realloc) + 1, j),
                      SubSeq(l, j + 3, j + 2 + d),
                      Slice(l, j + 2 + d + Len(P_eq))>>]
    ELSE NoMatch

\* ^NAME\((\d*), (\d*)\) = (.*)$ for calloc, aligned_alloc, posix_memalign, memalign
MatchTwoArgs(prefix, l) ==
    LET p == Len(prefix)
        d1 == DigitRun(l, p + 1)
        q == p + d1 + Len(P_comma)
        d2 == DigitRun(l, q + 1)
    IN  IF /\ StartsWith(l, prefix)
           /\ StartsWith(Slice(l, p + d1), P_comma)
           /\ StartsWith(Slice(l, q + d2), P_eq)
        THEN [ok |-> TRUE,
              g |-> <<SubSeq(l, p + 1, p + d1), SubSeq(l, q + 1, q + d2),
                      Slice(l, q + d2 + Len(P_eq))>>]
        ELSE NoMatch

MatchCalloc(l) == MatchTwoArgs(P_calloc, l)
MatchAlignedAlloc(l) == MatchTwoArgs(P_aligned_alloc, l)
MatchPosixMemalign(l) == MatchTwoArgs(P_posix_memalign, l)
MatchMemalign(l) == MatchTwoArgs(P_memalign, l)

-----------------------------------------------------------------------------
(* The symbol resolver, lines 15-22. *)

MANGLED_C1 == <<"_", "Z", "N", "1", "A", "C", "1", "E", "v">>
MANGLED_C2 == <<"_", "Z", "N", "1", "A", "C", "2", "E", "v">>
DEMANGLED_A == <<"A", ":", ":", "A", "(", ")">>

\* What the external c++filt prints for a symbol: the demangled name and a
\* newline.  The complete-object and base-object constructors of a class
\* demangle to the same name; a symbol that is not mangled is printed as is.
CxxFilt(symbol) ==
    (IF symbol \in {MANGLED_C1, MANGLED_C2} THEN DEMANGLED_A ELSE symbol) \o <<"\n">>

\* resolve_symbol without line 19: c++filt runs at every call
resolve_symbol_uncached(m, symbol) ==
    LET m2 == DictSet(m, symbol, RStrip(CxxFilt(symbol)))
    IN  [map |-> m2, calls |-> <<symbol>>, value |-> DictGet(m2, symbol)]

\* resolve_symbol that returns its argument instead of the cached name
resolve_symbol_unresolved(m, symbol) ==
    IF ~DictHas(m, symbol)
    THEN [map |-> DictSet(m, symbol, RStrip(CxxFilt(symbol))), calls |-> <<symbol>>,
          value |-> symbol]
    ELSE [map |-> m, calls |-> <<>>, value |-> symbol]

\* resolve_symbol(symbol) on the cache m: the cache afterwards, the c++filt
\* runs it made, and the value returned
resolve_symbol(m, symbol) ==
    IF ~DictHas(m, symbol)
    THEN LET m2 == DictSet(m, symbol, RStrip(CxxFilt(symbol)))
         IN  [map |-> m2, calls |-> <<symbol>>, value |-> DictGet(m2, symbol)]
    ELSE [map |-> m, calls |-> <<>>, value |-> DictGet(m, symbol)]

-----------------------------------------------------------------------------
(* class BacktraceLine, lines 26-52. *)

Brackets == {"(", ")", "[", "]"}

RECURSIVE SplitOn(_, _)
\* re.split on a set of single characters, and str.split on one character:
\* the fields between the delimiters, one more than there are delimiters
SplitOn(s, delims) ==
    IF \E i \in 1..Len(s) : s[i] \in delims
    THEN LET i == CHOOSE i \in 1..Len(s) :
                     s[i] \in delims /\ \A j \in 1..(i - 1) : s[j] \notin delims
         IN  <<SubSeq(s, 1, i - 1)>> \o SplitOn(SubSeq(s, i + 1, Len(s)), delims)
    ELSE <<s>>

\* BacktraceLine.__init__: ok is FALSE when one of the two asserts fails
BacktraceLine(l) ==
    LET fields == SplitOn(l, Brackets)
    IN  IF Len(fields) # 5
        THEN [ok |-> FALSE, path |-> <<>>, symbol |-> <<>>, offset |-> <<>>, address |-> <<>>]
        ELSE LET symfields == SplitOn(fields[2], {"+"})
             IN  IF Len(symfields) # 2
                 THEN [ok |-> FALSE, path |-> <<>>, symbol |-> <<>>,
                       offset |-> <<>>, address |-> <<>>]
                 ELSE [ok |-> TRUE, path |-> fields[1], symbol |-> symfields[1],
                       offset |-> symfields[2], address |-> fields[4]]

\* re.search(pat, s) for a pattern of literal characters and '.', which
\* matches any character: pat occurs somewhere in s
ReSearch(pat, s) ==
    \E i \in 0..(Len(s) - Len(pat)) :
        \A j \in 1..Len(pat) : pat[j] = "." \/ pat[j] = s[i + j]

HexVal(c) ==
    CASE c \in Digits -> DigitVal(c)
      [] c \in {"a", "A"} -> 10 [] c \in {"b", "B"} -> 11 [] c \in {"c", "C"} -> 12
      [] c \in {"d", "D"} -> 13 [] c \in {"e", "E"} -> 14 [] c \in {"f", "F"} -> 15

RECURSIVE HexDigits(_)
HexDigits(s) ==
    IF Len(s) = 0 THEN 0
    ELSE 16 * HexDigits(SubSeq(s, 1, Len(s) - 1)) + HexVal(s[Len(s)])

\* int(s, 16), with the optional 0x prefix
HexInt(s) == IF StartsWith(s, <<"0", "x">>) THEN HexDigits(Slice(s, 2)) ELSE HexDigits(s)

\* BacktraceLine.match
match(self, pattern) ==
    IF Len(pattern.path) # 0 /\ ~ReSearch(pattern.path, self.path) THEN FALSE
    ELSE IF Len(pattern.symbol) # 0 /\ ~ReSearch(pattern.symbol, self.symbol) THEN FALSE
    ELSE IF Len(pattern.offset) # 0 /\ HexInt(self.offset) # HexInt(pattern.offset) THEN FALSE
    ELSE IF Len(pattern.address) # 0 /\ ~(self.address = pattern.address) THEN FALSE
    ELSE TRUE

\* BacktraceLine.toString with the resolved symbol
toString(self, readable_symbol) ==
    self.path \o <<"(">> \o readable_symbol \o <<"+">> \o self.offset
        \o <<")", "[">> \o self.address \o <<"]">>

backtrace_filter_out == BacktraceLine(<<"l", "i", "b", "m", "t", "r", "a", "c", "e", ".", "s", "o", "(", "+", ")", "[", "]">>)

-----------------------------------------------------------------------------
(* The input: the lines fileinput.input() can yield, each with its newline. *)

T1 == <<"1">>
T2 == <<"2">>
T12 == <<"1", "2">>
A1 == <<"0", "x", "1">>
A2 == <<"0", "x", "2">>
N2 == <<"2">>
N4 == <<"4">>
N8 == <<"8">>
N16 == <<"1", "6">>

MallocCall(n, a) == P_malloc \o n \o P_eq \o a
FreeCall(a) == P_free \o a \o <<")">>
ReallocCall(old, n, a) == P_realloc \o old \o P_comma \o n \o P_eq \o a
TwoArgsCall(prefix, x, n, a) == prefix \o x \o P_comma \o n \o P_eq \o a
UnknownCall == <<"m", "m", "a", "p", "(", "8", ")", " ", "=", " ", "0", "x", "1">>

\* "* <thread> <call>"
Header(t, call) == P_star \o t \o <<" ">> \o call

Addrs == {A1, A2, NIL}

Calls ==
    {MallocCall(N8, a) : a \in Addrs}
        \cup {FreeCall(a) : a \in Addrs}
        \cup {ReallocCall(A1, N16, a) : a \in Addrs}
        \cup {TwoArgsCall(P_calloc, N2, N4, A2), TwoArgsCall(P_aligned_alloc, N8, N8, A2),
              TwoArgsCall(P_posix_memalign, N8, N8, A2), TwoArgsCall(P_memalign, N8, N8, A2),
              UnknownCall}

MethodLines ==
    {Header(T1, c) : c \in Calls}
        \cup {Header(T2, MallocCall(N8, A1)), Header(T2, ReallocCall(A1, N16, A1))}
        \cup {<<"*", " ", "x">>}

\* two frames of the traced program, which render alike, and one of the shim
FrameC1 == <<"a", "p", "p", "(", "_", "Z", "N", "1", "A", "C", "1", "E", "v", "+", "0", "x", "1", ")", "[", "0", "x", "7", "]">>
FrameC2 == <<"a", "p", "p", "(", "_", "Z", "N", "1", "A", "C", "2", "E", "v", "+", "0", "x", "1", ")", "[", "0", "x", "7", "]">>
FrameShim == <<"l", "i", "b", "m", "t", "r", "a", "c", "e", ".", "s", "o", "(", "m", "a", "l", "l", "o", "c", "+", "0", "x", "3", ")", "[", "0", "x", "9", "]">>

FrameLines == {FrameC1, FrameC2, FrameShim}

OtherLines == {<<"[">>, <<"]">>, <<>>, <<"#">>, <<"#", " ", "n", "o", "t", "e">>}

WithNewline(ls) == {l \o <<"\n">> : l \in ls}

Lines == WithNewline(MethodLines \cup FrameLines \cup OtherLines)

\* Longer traces of few calls: two threads, two methods, every frame, no comments
GroupLines ==
    WithNewline({Header(T1, MallocCall(N8, A1)), Header(T2, MallocCall(N8, A1)),
                 Header(T1, TwoArgsCall(P_calloc, N2, N4, A2)),
                 <<"[">>, <<"]">>} \cup FrameLines)

\* Longer traces of a few calls on one thread, with empty backtrace blocks
LedgerLines ==
    WithNewline({Header(T1, c) : c \in {MallocCall(N8, A1), FreeCall(A1),
                                        ReallocCall(A1, N16, A1), ReallocCall(A1, N16, A2),
                                        TwoArgsCall(P_calloc, N2, N4, A2)}}
                    \cup {<<"[">>, <<"]">>})

\* Long traces of one call on three threads, with empty backtrace blocks
SortLines ==
    WithNewline({Header(t, MallocCall(N8, A1)) : t \in {T1, T2, T12}}
                    \cup {<<"[">>, <<"]">>})

\* Frames in and out of the format PATH(SYMBOL+OFFSET)[ADDRESS]
FrameGood == <<"a", "(", "f", "+", "1", ")", "[", "7", "]">>
FramePlusPath == <<"a", "+", "b", "(", "f", "+", "1", ")", "[", "7", "]">>
FrameParenPath == <<"a", "(", "b", ")", "c", "(", "f", "+", "1", ")", "[", "7", "]">>
FrameSwapped == <<"a", "[", "f", "+", "1", "]", "(", "7", ")">>
FrameNoPlus == <<"a", "(", "f", ")", "[", "7", "]">>
FrameTwoPlus == <<"a", "(", "f", "+", "1", "+", "2", ")", "[", "7", "]">>
FrameNoAddress == <<"a", "(", "f", "+", "1", ")">>

\* Blocks of one call, with frames in and out of the format
FrameGrammarLines ==
    WithNewline({Header(T1, MallocCall(N8, A1)), <<"[">>, <<"]">>,
                 FrameGood, FramePlusPath, FrameParenPath, FrameSwapped,
                 FrameNoPlus, FrameTwoPlus, FrameNoAddress})

\* Comments
HashOnly == <<"#">>
HashA == <<"#", " ", "a">>
HashB == <<"#", " ", "b", " ", " ">>
DashC == <<"-", " ", "c">>

\* One call and its block, with comments anywhere
CommentLines ==
    WithNewline({Header(T1, MallocCall(N8, A1)), <<"[">>, <<"]">>, FrameGood,
                 HashOnly, HashA, HashB, DashC})

-----------------------------------------------------------------------------
(* parse(), lines 78-205. *)

\* lines 86-90: the per-event variables as the READY branch leaves them
Reset == [thread_id |-> None, method |-> "None", allocSize |-> IntV(0),
          address |-> None, currentBackTrace |-> <<>>]

\* the per-event variables after lines 85-91
Scratch ==
    IF status = "READY" THEN Reset
    ELSE [thread_id |-> thread_id, method |-> method, allocSize |-> allocSize,
          address |-> address, currentBackTrace |-> currentBackTrace]

\* status after lines 85-91
StatusIn == IF status = "READY" THEN "THREAD" ELSE status

\* line 92
IsSkipped(l) == IF Len(l) = 0 THEN TRUE ELSE l[1] \in {" ", "-", "#"}

\* what the method branches of lines 107-177 leave behind: how the branch
\* ends ("continue", "exit" for sys.exit(1), "raise" for an uncaught
\* exception), the per-event variables and the two tables
Outcome(end, mth, size, addr, m, b) ==
    [end |-> end, method |-> mth, allocSize |-> size, address |-> addr,
     mallocs |-> m, membt |-> b]

\* the values of lines 125 and 136
Sentinels == {StrV(ALREADY_FREED), StrV(ALREADY_REALLOCED)}

\* the table m holds a size, not a sentinel, for address a
Concrete(m, a) == DictHas(m, a) /\ DictGet(m, a) \notin Sentinels

\* lines 107-114
OnMalloc(g, m, b) ==
    Outcome("continue", "malloc", StrV(g[1]), g[2], DictSet(m, g[2], StrV(g[1])), b)

\* lines 118-123 with the ledger consulted before the null marker is checked
OnFree_lookupFirst(g, m, b) ==
    LET size == IF DictHas(m, g[1]) THEN DictGet(m, g[1])
                ELSE IF g[1] = NIL THEN StrV(S_null)
                ELSE StrV(S_unknown)
    IN  Outcome("continue", "free", size, None,
                DictSet(m, g[1], StrV(ALREADY_FREED)),
                IF DictHas(b, g[1]) THEN DictDel(b, g[1]) ELSE b)

\* lines 115-128 without lines 126-127: the live backtrace is kept
OnFree_keepsBacktrace(g, m, b) ==
    LET size == IF g[1] = NIL THEN StrV(S_null)
                ELSE IF DictHas(m, g[1]) THEN DictGet(m, g[1])
                ELSE StrV(S_unknown)
    IN  Outcome("continue", "free", size, None,
                DictSet(m, g[1], StrV(ALREADY_FREED)), b)

\* lines 115-128 with a sentinel of the ledger taken for no entry
OnFree_hidesSentinel(g, m, b) ==
    LET size == IF g[1] = NIL THEN StrV(S_null)
                ELSE IF Concrete(m, g[1]) THEN DictGet(m, g[1])
                ELSE StrV(S_unknown)
    IN  Outcome("continue", "free", size, None,
                DictSet(m, g[1], StrV(ALREADY_FREED)),
                IF DictHas(b, g[1]) THEN DictDel(b, g[1]) ELSE b)

\* lines 115-128
OnFree(g, m, b) ==
    LET size == IF g[1] = NIL THEN StrV(S_null)
                ELSE IF DictHas(m, g[1]) THEN DictGet(m, g[1])
                ELSE StrV(S_unknown)
    IN  Outcome("continue", "free", size, None,
                DictSet(m, g[1], StrV(ALREADY_FREED)),
                IF DictHas(b, g[1]) THEN DictDel(b, g[1]) ELSE b)

\* lines 129-140 without lines 135-136: the old address keeps its size
OnRealloc_keepsOld(g, m, b) ==
    Outcome("continue", "realloc", StrV(g[2]), g[3], DictSet(m, g[3], StrV(g[2])),
            IF DictHas(b, g[1]) THEN DictDel(b, g[1]) ELSE b)

\* lines 129-140 without lines 137-138: the old address keeps its backtrace
OnRealloc_keepsBacktrace(g, m, b) ==
    LET m1 == DictSet(m, g[3], StrV(g[2]))
        m2 == IF g[1] # g[3] THEN DictSet(m1, g[1], StrV(ALREADY_REALLOCED)) ELSE m1
    IN  Outcome("continue", "realloc", StrV(g[2]), g[3], m2, b)

\* lines 129-140
OnRealloc(g, m, b) ==
    LET m1 == DictSet(m, g[3], StrV(g[2]))
        m2 == IF g[1] # g[3] THEN DictSet(m1, g[1], StrV(ALREADY_REALLOCED)) ELSE m1
    IN  Outcome("continue", "realloc", StrV(g[2]), g[3], m2,
                IF DictHas(b, g[1]) THEN DictDel(b, g[1]) ELSE b)

\* lines 141-149: int() of an empty group raises ValueError
OnCalloc(g, m, b) ==
    IF IsInt(g[1]) /\ IsInt(g[2])
    THEN LET size == IntV(ParseInt(g[1]) * ParseInt(g[2]))
         IN  Outcome("continue", "calloc", size, g[3], DictSet(m, g[3], size), b)
    ELSE Outcome("raise", "calloc", IntV(0), None, m, b)

\* lines 150-176: aligned_alloc, posix_memalign and memalign
OnAligned(mth, g, m, b) ==
    IF IsInt(g[2])
    THEN LET size == IntV(ParseInt(g[2]))
         IN  Outcome("continue", mth, size, g[3], DictSet(m, g[3], size), b)
    ELSE Outcome("raise", mth, IntV(0), None, m, b)

\* the if-chain of lines 107-176: the first pattern that matches the rest of
\* the thread line, with its groups; "None" when none matches
Recognise(l) ==
    IF MatchMalloc(l).ok THEN [method |-> "malloc", g |-> MatchMalloc(l).g]
    ELSE IF MatchFree(l).ok THEN [method |-> "free", g |-> MatchFree(l).g]
    ELSE IF MatchRealloc(l).ok THEN [method |-> "realloc", g |-> MatchRealloc(l).g]
    ELSE IF MatchCalloc(l).ok THEN [method |-> "calloc", g |-> MatchCalloc(l).g]
    ELSE IF MatchAlignedAlloc(l).ok
         THEN [method |-> "aligned_alloc", g |-> MatchAlignedAlloc(l).g]
    ELSE IF MatchPosixMemalign(l).ok
         THEN [method |-> "posix_memalign", g |-> MatchPosixMemalign(l).g]
    ELSE IF MatchMemalign(l).ok THEN [method |-> "memalign", g |-> MatchMemalign(l).g]
    ELSE [method |-> "None", g |-> <<>>]

\* line 177 with an error() that returns: the loop goes on
Unexpected_goesOn(m, b) == Outcome("continue", "None", IntV(0), None, m, b)

\* line 177: error() prints the line and exits
Unexpected(m, b) == Outcome("exit", "None", IntV(0), None, m, b)

\* lines 107-177 on the recognised call c
MethodLine(c, m, b) ==
    CASE c.method = "malloc" -> OnMalloc(c.g, m, b)
      [] c.method = "free" -> OnFree(c.g, m, b)
      [] c.method = "realloc" -> OnRealloc(c.g, m, b)
      [] c.method = "calloc" -> OnCalloc(c.g, m, b)
      [] c.method \in {"aligned_alloc", "posix_memalign", "memalign"} ->
            OnAligned(c.method, c.g, m, b)
      [] OTHER -> Unexpected(m, b)

\* lines 98-103: the thread id and the rest of the line
ThreadHeader(l) ==
    LET m == FirstDigits(l)
    IN  [m |-> m, rest |-> Slice(l, 3 + Len(m))]

\* The text-only part of the loop body, per input line: the line after line
\* 84, and for the thread branch the header and the recognised call.
AllLines == Lines \cup GroupLines \cup LedgerLines \cup SortLines \cup FrameGrammarLines
                \cup CommentLines
Stripped == [raw \in AllLines |-> RStrip(raw)]
Headers == [raw \in AllLines |-> ThreadHeader(Stripped[raw])]
Recognised == [raw \in AllLines |-> Recognise(Headers[raw].rest)]

Init ==
    /\ pc = "parse"
    /\ exitCode = -1
    /\ out = <<"Parsing">>
    /\ echoed = <<>>
    /\ hashed = <<>>
    /\ reported = <<>>
    /\ listed = <<>>
    /\ status = "READY"
    /\ thread_id = Reset.thread_id
    /\ method = Reset.method
    /\ allocSize = Reset.allocSize
    /\ address = Reset.address
    /\ currentBackTrace = Reset.currentBackTrace
    /\ comments = <<>>
    /\ backtraces = <<>>
    /\ mallocs = <<>>
    /\ membt = <<>>
    /\ symbols_map = <<>>
    /\ filtCalls = <<>>
    /\ resolves = <<>>
    /\ nlines = 0
    /\ last = [line |-> None, branch |-> "none"]
    /\ ev = [read |-> FALSE, call |-> Recognise(None), mallocs |-> <<>>, membt |-> <<>>]
    /\ block = <<>>
    /\ events = <<>>

\* the for loop yields one more line
Reads(raw, max, branch) ==
    /\ pc = "parse"
    /\ nlines < max
    /\ nlines' = nlines + 1
    /\ last' = [line |-> Stripped[raw], branch |-> branch]
    /\ hashed' = IF StartsWith(Stripped[raw], <<"#">>)
                 THEN Append(hashed, Stripped[raw])
                 ELSE hashed

\* the per-event variables get the values of record s
SetScratch(s) ==
    /\ thread_id' = s.thread_id
    /\ method' = s.method
    /\ allocSize' = s.allocSize
    /\ address' = s.address
    /\ currentBackTrace' = s.currentBackTrace

\* an uncaught exception or sys.exit(1): the interpreter exits with status 1
Abort ==
    /\ pc' = "done"
    /\ exitCode' = 1

Running == UNCHANGED <<pc, exitCode>>

\* lines 93-94 with the comments kept in reverse order
Remember_first(c, l) == IF Len(l) > 1 THEN <<l>> \o c ELSE c

\* lines 93-94
Remember(c, l) == IF Len(l) > 1 THEN Append(c, l) ELSE c

\* lines 92-95: a blank line or a line that starts with ' ', '-' or '#'
SkipLine(input, max) ==
    \E raw \in input :
        LET l == Stripped[raw] IN
        /\ Reads(raw, max, "skip")
        /\ IsSkipped(l)
        /\ status' = StatusIn
        /\ SetScratch(Scratch)
        /\ comments' = Remember(comments, l)
        /\ Running
        /\ UNCHANGED <<out, echoed, reported, listed, backtraces, mallocs, membt,
                       symbols_map, filtCalls, resolves, ev, block, events>>

\* lines 96-177: the thread header and the call on it
ThreadLine(input, max) ==
    \E raw \in input :
        LET l == Stripped[raw]
            m == Headers[raw].m
            r == MethodLine(Recognised[raw], mallocs, membt)
        IN
        /\ Reads(raw, max, "thread")
        /\ ~IsSkipped(l)
        /\ StatusIn = "THREAD"
        /\ comments' = comments
        /\ UNCHANGED <<out, echoed, reported, listed, backtraces, symbols_map, filtCalls,
                       resolves, events>>
        /\ IF ~StartsWith(l, P_star)
           THEN \* line 97: AssertionError
                /\ Abort
                /\ status' = "THREAD"
                /\ SetScratch(Scratch)
                /\ UNCHANGED <<mallocs, membt, ev, block>>
           ELSE IF Len(m) < 1
           THEN \* line 100
                /\ Abort
                /\ status' = "THREAD"
                /\ SetScratch(Scratch)
                /\ UNCHANGED <<mallocs, membt, ev, block>>
           ELSE /\ status' = "BACKTRACE_START"
                /\ thread_id' = m
                /\ currentBackTrace' = Scratch.currentBackTrace \o P_thread \o m
                /\ method' = r.method
                /\ allocSize' = r.allocSize
                /\ address' = r.address
                /\ mallocs' = r.mallocs
                /\ membt' = r.membt
                /\ ev' = [read |-> TRUE, call |-> Recognised[raw],
                          mallocs |-> mallocs, membt |-> membt]
                /\ block' = <<>>
                /\ IF r.end = "continue" THEN Running ELSE Abort

\* line 179 without the assert
IsOpening_any(l) == TRUE

\* line 179
IsOpening(l) == l = <<"[">>

\* lines 178-180
BacktraceStart(input, max) ==
    \E raw \in input :
        LET l == Stripped[raw] IN
        /\ Reads(raw, max, "start")
        /\ ~IsSkipped(l)
        /\ StatusIn = "BACKTRACE_START"
        /\ IF IsOpening(l)
           THEN status' = "BACKTRACE" /\ Running
           ELSE status' = status /\ Abort
        /\ UNCHANGED <<out, echoed, reported, listed, thread_id, method, allocSize, address,
                       currentBackTrace, comments, backtraces, mallocs, membt,
                       symbols_map, filtCalls, resolves, ev, block, events>>

\* lines 184-187: the statistics of a backtrace seen for the first time
NewStats ==
    [count |-> 0, malloc |-> <<>>, free |-> <<>>, realloc |-> <<>>, calloc |-> <<>>,
     aligned_alloc |-> <<>>, posix_memalign |-> <<>>, memalign |-> <<>>]

\* lines 183-189 with line 188 inside the if of line 183
Aggregate_countsKeys(bts, key, mth, size) ==
    LET fresh == ~DictHas(bts, key)
        b1 == IF fresh THEN DictSet(bts, key, NewStats) ELSE bts
        st == DictGet(b1, key)
        st1 == IF fresh THEN [st EXCEPT !.count = @ + 1] ELSE st
    IN  DictSet(b1, key, [st1 EXCEPT ![mth] = Append(@, size)])

\* lines 183-189: the event is counted under its backtrace and its method
Aggregate(bts, key, mth, size) ==
    LET b1 == IF ~DictHas(bts, key) THEN DictSet(bts, key, NewStats) ELSE bts
        st == DictGet(b1, key)
        st1 == [st EXCEPT !.count = @ + 1]
    IN  DictSet(b1, key, [st1 EXCEPT ![mth] = Append(@, size)])

\* lines 190-191 with the backtrace of before the event, which is empty
Associate_blank(b, addr, key) ==
    IF addr # None THEN DictSet(b, addr, Reset.currentBackTrace) ELSE b

\* lines 190-191 for an address without backtrace only
Associate_keepsFirst(b, addr, key) ==
    IF addr # None /\ ~DictHas(b, addr) THEN DictSet(b, addr, key) ELSE b

\* lines 190-191
Associate(b, addr, key) == IF addr # None THEN DictSet(b, addr, key) ELSE b

\* lines 182-192: the ']' that closes a backtrace block
BacktraceEnd(input, max) ==
    \E raw \in input :
        LET l == Stripped[raw] IN
        /\ Reads(raw, max, "end")
        /\ ~IsSkipped(l)
        /\ StatusIn = "BACKTRACE"
        /\ l = <<"]">>
        /\ backtraces' = Aggregate(backtraces, currentBackTrace, method, allocSize)
        /\ membt' = Associate(membt, address, currentBackTrace)
        /\ status' = "READY"
        /\ events' = Append(events, [call |-> ev.call, thread_id |-> thread_id,
                                     block |-> block, key |-> currentBackTrace])
        /\ Running
        /\ UNCHANGED <<out, echoed, reported, listed, thread_id, method, allocSize, address,
                       currentBackTrace, comments, mallocs, symbols_map, filtCalls,
                       resolves, ev, block>>

\* line 195 with a filter that matches nothing
Filtered_never(bt) == FALSE

\* line 195
Filtered(bt) == match(bt, backtrace_filter_out)

\* lines 197-199 with the rendering of the frame
AppendFrame(cbt, text) == (IF Len(cbt) > 0 THEN cbt \o <<"\n">> ELSE cbt) \o text

\* lines 193-199: a frame of the backtrace block
BacktraceFrame(input, max) ==
    \E raw \in input :
        LET l == Stripped[raw]
            bt == BacktraceLine(l)
            r == resolve_symbol(symbols_map, bt.symbol)
        IN
        /\ Reads(raw, max, "frame")
        /\ ~IsSkipped(l)
        /\ StatusIn = "BACKTRACE"
        /\ l # <<"]">>
        /\ status' = status
        /\ UNCHANGED <<out, echoed, reported, listed, thread_id, method, allocSize, address,
                       comments, backtraces, mallocs, membt, ev, events>>
        /\ IF ~bt.ok
           THEN \* lines 29, 31: AssertionError
                /\ Abort
                /\ UNCHANGED <<currentBackTrace, symbols_map, filtCalls, resolves, block>>
           ELSE IF Filtered(bt)
           THEN /\ Running
                /\ block' = Append(block, l)
                /\ UNCHANGED <<currentBackTrace, symbols_map, filtCalls, resolves>>
           ELSE /\ Running
                /\ block' = Append(block, l)
                /\ symbols_map' = r.map
                /\ filtCalls' = filtCalls \o r.calls
                /\ resolves' = Append(resolves, bt.symbol)
                /\ currentBackTrace' = AppendFrame(currentBackTrace, toString(bt, r.value))

\* lines 200-205: the input is exhausted; the comments are printed
EndOfInput ==
    /\ pc = "parse"
    /\ pc' = "summary"
    /\ out' = Append(out, "Comments")
    /\ echoed' = comments
    /\ UNCHANGED <<exitCode, hashed, reported, listed, status, thread_id, method,
                   allocSize, address, currentBackTrace, comments, backtraces, mallocs,
                   membt, symbols_map, filtCalls, resolves, nlines, last, ev, block, events>>

-----------------------------------------------------------------------------
(* summary(), lines 207-225. *)

RECURSIVE SortedByCount_unstable(_)
\* a sort by count that puts an item before the items of the same count
SortedByCount_unstable(d) ==
    IF Len(d) = 0 THEN <<>>
    ELSE LET e == d[Len(d)]
             front == SortedByCount_unstable(SubSeq(d, 1, Len(d) - 1))
             lt == SelectSeq(front, LAMBDA x : x[2].count < e[2].count)
             ge == SelectSeq(front, LAMBDA x : x[2].count >= e[2].count)
         IN  lt \o <<e>> \o ge

RECURSIVE SortedByCount(_)
\* sorted(backtraces.items(), key=count): ascending, and stable, so an item
\* goes behind the items of the same count that precede it
SortedByCount(d) ==
    IF Len(d) = 0 THEN <<>>
    ELSE LET e == d[Len(d)]
             front == SortedByCount(SubSeq(d, 1, Len(d) - 1))
             le == SelectSeq(front, LAMBDA x : x[2].count <= e[2].count)
             gt == SelectSeq(front, LAMBDA x : x[2].count > e[2].count)
         IN  le \o <<e>> \o gt

\* line 222, for a str value
IsPrinted(value) == Len(value.s) > 0 /\ value.s[1] # "*"

RECURSIVE NotReleased(_, _, _)
\* lines 221-225 from item i of mallocs on: the entries printed, and whether
\* the loop raised (TypeError for len() of an int, KeyError for membt[key])
NotReleased(m, b, i) ==
    IF i > Len(m) THEN [printed |-> <<>>, raised |-> FALSE]
    ELSE LET key == m[i][1]
             value == m[i][2]
             tail == NotReleased(m, b, i + 1)
         IN  IF value.t = "int" THEN [printed |-> <<>>, raised |-> TRUE]
             ELSE IF ~IsPrinted(value) THEN tail
             ELSE IF ~DictHas(b, key)
                  THEN [printed |-> <<[address |-> key, size |-> value, backtrace |-> None]>>,
                        raised |-> TRUE]
             ELSE [printed |-> <<[address |-> key, size |-> value,
                                  backtrace |-> DictGet(b, key)]>> \o tail.printed,
                   raised |-> tail.raised]

Summary ==
    LET r == NotReleased(mallocs, membt, 1)
        sorted == SortedByCount(backtraces)
    IN
    /\ pc = "summary"
    /\ pc' = "done"
    /\ out' = out \o <<"Backtraces", "Memory not released">>
    /\ listed' = [i \in 1..Len(sorted) |-> sorted[i][1]]
    /\ reported' = r.printed
    /\ exitCode' = IF r.raised THEN 1 ELSE 0
    /\ UNCHANGED <<echoed, hashed, status, thread_id, method, allocSize, address,
                   currentBackTrace, comments, backtraces, mallocs, membt,
                   symbols_map, filtCalls, resolves, nlines, last, ev, block, events>>

-----------------------------------------------------------------------------

\* any trace of at most MaxLines lines of Lines
Next ==
    \/ SkipLine(Lines, MaxLines)
    \/ ThreadLine(Lines, MaxLines)
    \/ BacktraceStart(Lines, MaxLines)
    \/ BacktraceEnd(Lines, MaxLines)
    \/ BacktraceFrame(Lines, MaxLines)
    \/ EndOfInput
    \/ Summary

Spec == Init /\ [][Next]_vars

\* any trace of at most MaxGroupLines lines of GroupLines
NextGroup ==
    \/ ThreadLine(GroupLines, MaxGroupLines)
    \/ BacktraceStart(GroupLines, MaxGroupLines)
    \/ BacktraceEnd(GroupLines, MaxGroupLines)
    \/ BacktraceFrame(GroupLines, MaxGroupLines)
    \/ EndOfInput
    \/ Summary

SpecGroup == Init /\ [][NextGroup]_vars

\* any trace of at most MaxLedgerLines lines of LedgerLines
NextLedger ==
    \/ ThreadLine(LedgerLines, MaxLedgerLines)
    \/ BacktraceStart(LedgerLines, MaxLedgerLines)
    \/ BacktraceEnd(LedgerLines, MaxLedgerLines)
    \/ BacktraceFrame(LedgerLines, MaxLedgerLines)
    \/ EndOfInput
    \/ Summary

SpecLedger == Init /\ [][NextLedger]_vars

\* any trace of at most MaxSortLines lines of SortLines
NextSort ==
    \/ ThreadLine(SortLines, MaxSortLines)
    \/ BacktraceStart(SortLines, MaxSortLines)
    \/ BacktraceEnd(SortLines, MaxSortLines)
    \/ BacktraceFrame(SortLines, MaxSortLines)
    \/ EndOfInput
    \/ Summary

SpecSort == Init /\ [][NextSort]_vars

\* any trace of at most MaxFrameLines lines of FrameGrammarLines
NextFrame ==
    \/ ThreadLine(FrameGrammarLines, MaxFrameLines)
    \/ BacktraceStart(FrameGrammarLines, MaxFrameLines)
    \/ BacktraceEnd(FrameGrammarLines, MaxFrameLines)
    \/ BacktraceFrame(FrameGrammarLines, MaxFrameLines)
    \/ EndOfInput
    \/ Summary

SpecFrame == Init /\ [][NextFrame]_vars

\* any trace of at most MaxCommentLines lines of CommentLines
NextComments ==
    \/ SkipLine(CommentLines, MaxCommentLines)
    \/ ThreadLine(CommentLines, MaxCommentLines)
    \/ BacktraceStart(CommentLines, MaxCommentLines)
    \/ BacktraceEnd(CommentLines, MaxCommentLines)
    \/ BacktraceFrame(CommentLines, MaxCommentLines)
    \/ EndOfInput
    \/ Summary

SpecComments == Init /\ [][NextComments]_vars

-----------------------------------------------------------------------------
(* Vocabulary of the properties. *)

\* the call of the event in progress, or of the last one
LastCall == ev.call

\* the call of completed event i
CallOf(i) == events[i].call

\* the parser is back in READY after a closing ']'
AtBoundary == status = "READY" /\ Len(events) > 0

\* no event is in progress
BetweenEvents == status \in {"READY", "THREAD"}

\* the number a printed size stands for
SizeNumber(v) == IF v.t = "int" THEN v.n ELSE ParseInt(v.s)

\* the address an allocating call returned, None for free
AllocResult(c) ==
    IF c.method = "malloc" THEN c.g[2]
    ELSE IF c.method \in {"realloc", "calloc", "aligned_alloc", "posix_memalign", "memalign"}
         THEN c.g[3]
    ELSE None

\* the size an allocating call asked for
AllocSize(c) ==
    CASE c.method = "malloc" -> ParseInt(c.g[1])
      [] c.method = "calloc" -> ParseInt(c.g[1]) * ParseInt(c.g[2])
      [] OTHER -> ParseInt(c.g[2])

\* the call releases address a: free(a), or realloc(a, n) = b with b # a
Releases(c, a) ==
    \/ c.method = "free" /\ c.g[1] = a
    \/ c.method = "realloc" /\ c.g[1] = a /\ c.g[3] # a

\* the completed events that returned address a
AllocationsOf(a) == {i \in 1..Len(events) : AllocResult(CallOf(i)) = a}

\* the last completed event that returned address a
LastAllocation(a) == CHOOSE i \in AllocationsOf(a) : \A j \in AllocationsOf(a) : j <= i

\* a was returned by a completed allocating call and not released afterwards
Leaked(a) ==
    /\ AllocationsOf(a) # {}
    /\ \A j \in (LastAllocation(a) + 1)..Len(events) : ~Releases(CallOf(j), a)

\* the report was produced for a trace of complete events
ReportOfCompleteEvents ==
    /\ pc = "done"
    /\ \E i \in 1..Len(out) : out[i] = "Memory not released"
    /\ BetweenEvents

IsReported(a) == \E i \in 1..Len(reported) : reported[i].address = a

\* C1: at the end of a well-formed trace, every address that an allocating
\* call returned and that was not afterwards freed or realloc'ed away is
\* printed under "Memory not released" with its last recorded size.
C1_LeaksAreReported ==
    ReportOfCompleteEvents =>
        \A a \in Addrs \ {NIL} :
            Leaked(a) =>
                \E i \in 1..Len(reported) :
                    /\ reported[i].address = a
                    /\ SizeNumber(reported[i].size) = AllocSize(CallOf(LastAllocation(a)))

\* the event just completed is realloc(a, n) = a of an address a that was
\* live with a backtrace
SameAddressRealloc ==
    /\ AtBoundary
    /\ LastCall.method = "realloc"
    /\ LastCall.g[1] = LastCall.g[3]
    /\ Concrete(ev.mallocs, LastCall.g[1])
    /\ DictHas(ev.membt, LastCall.g[1])

\* C2 as stated: a completed realloc(A, N) = A of a live A records size N,
\* leaves A live, and leaves A with the backtrace it had before.
C2_BacktracePreserved ==
    SameAddressRealloc =>
        /\ DictGet(mallocs, LastCall.g[1]) = StrV(LastCall.g[2])
        /\ DictHas(membt, LastCall.g[1])
        /\ DictGet(membt, LastCall.g[1]) = DictGet(ev.membt, LastCall.g[1])

\* C2 as amended: a completed realloc(A, N) = A of a live A records size N,
\* leaves A live, and associates A with the backtrace of the realloc event.
C2_BacktraceOfRealloc ==
    SameAddressRealloc =>
        /\ DictGet(mallocs, LastCall.g[1]) = StrV(LastCall.g[2])
        /\ DictHas(membt, LastCall.g[1])
        /\ DictGet(membt, LastCall.g[1]) = events[Len(events)].key

\* a same-address realloc whose backtrace differs from the one A had
C2_Witness ==
    /\ SameAddressRealloc
    /\ DictGet(ev.mallocs, LastCall.g[1]) # DictGet(mallocs, LastCall.g[1])
    /\ DictGet(ev.membt, LastCall.g[1]) # events[Len(events)].key

\* the event just completed is realloc(a, n) = b, b # a, of a live address a
MovingRealloc ==
    /\ AtBoundary
    /\ LastCall.method = "realloc"
    /\ LastCall.g[1] # LastCall.g[3]
    /\ Concrete(ev.mallocs, LastCall.g[1])

FreesOf(a) == {i \in 1..Len(events) : CallOf(i).method = "free" /\ CallOf(i).g[1] = a}

\* a was returned by an allocating call, freed later, and not returned by an
\* allocating call after that
FreedForGood(a) ==
    /\ FreesOf(a) # {}
    /\ AllocationsOf(a) # {}
    /\ \E i \in FreesOf(a) :
          /\ \E k \in AllocationsOf(a) : k < i
          /\ \A k \in AllocationsOf(a) : k < i

\* C4 as stated: an address that was allocated, freed, and not returned by an
\* allocating call since has the ledger entry ALREADY_FREED, no live
\* backtrace, and is not printed.
C4_FreedIsAlreadyFreed ==
    BetweenEvents =>
        \A a \in Addrs :
            FreedForGood(a) =>
                /\ DictGet(mallocs, a) = StrV(ALREADY_FREED)
                /\ ~DictHas(membt, a)
                /\ ~IsReported(a)

\* C4 as amended: such an address has a sentinel as its ledger entry
\* (ALREADY_FREED, or ALREADY_REALLOCED once a later realloc of it returned
\* another address), no live backtrace, and is not printed.
C4_FreedIsDropped ==
    BetweenEvents =>
        \A a \in Addrs :
            FreedForGood(a) =>
                /\ DictGet(mallocs, a) =
                      (IF \E j \in 1..Len(events) :
                              /\ \A i \in FreesOf(a) : i < j
                              /\ Releases(CallOf(j), a)
                       THEN StrV(ALREADY_REALLOCED) ELSE StrV(ALREADY_FREED))
                /\ ~DictHas(membt, a)
                /\ ~IsReported(a)

\* the report was made after a malloc and a free of the same address, with
\* another address still listed
C4_Witness ==
    /\ ReportOfCompleteEvents
    /\ \E a \in Addrs : FreedForGood(a) /\ DictGet(ev.mallocs, a) # DictGet(mallocs, a)
    /\ Len(reported) > 0

\* how the report renders the frame on line l
Render(l) == LET bt == BacktraceLine(l) IN toString(bt, RStrip(CxxFilt(bt.symbol)))

\* the frames of a block that are not the shim's
Unshimmed(b) == SelectSeq(b, LAMBDA l : l # FrameShim)

\* the filtered, symbol-resolved frames of a block, as rendered
RenderedFrames(b) == [i \in 1..Len(Unshimmed(b)) |-> Render(Unshimmed(b)[i])]

\* completed events i and j are counted in one entry of backtraces, whose
\* count is the number of events with that key
SameEntry(i, j) ==
    /\ events[i].key = events[j].key
    /\ DictHas(backtraces, events[i].key)
    /\ DictGet(backtraces, events[i].key).count =
          Cardinality({k \in 1..Len(events) : events[k].key = events[i].key})

\* C5 as stated: two events whose filtered, resolved frames render alike are
\* counted in the same backtrace entry, whatever their thread ids, methods,
\* sizes and addresses.
C5_GroupedByFramesAlone ==
    \A i, j \in 1..Len(events) :
        RenderedFrames(events[i].block) = RenderedFrames(events[j].block)
            => SameEntry(i, j)

\* C5 as amended: two events of the same thread id whose filtered, resolved
\* frames render alike are counted in the same backtrace entry, whatever
\* their methods, sizes and addresses.
C5_GroupedByThreadAndFrames ==
    \A i, j \in 1..Len(events) :
        (/\ events[i].thread_id = events[j].thread_id
         /\ RenderedFrames(events[i].block) = RenderedFrames(events[j].block))
            => SameEntry(i, j)

\* two events of one thread with different calls and different raw symbols
\* that render alike
C5_Witness ==
    \E i, j \in 1..Len(events) :
        /\ events[i].thread_id = events[j].thread_id
        /\ CallOf(i).method # CallOf(j).method
        /\ events[i].block = <<FrameC1>>
        /\ events[j].block = <<FrameC2>>
        /\ SameEntry(i, j)

\* C6: two events with the same thread header whose blocks differ only in
\* frames of the shim are counted in the same backtrace entry.
C6_ShimFramesIgnored ==
    \A i, j \in 1..Len(events) :
        (/\ events[i].thread_id = events[j].thread_id
         /\ Unshimmed(events[i].block) = Unshimmed(events[j].block))
            => SameEntry(i, j)

\* two events of one thread, one with a shim frame before a frame of the
\* program and one with that frame alone
C6_Witness ==
    \E i, j \in 1..Len(events) :
        /\ events[i].thread_id = events[j].thread_id
        /\ Len(events[i].block) = 2
        /\ events[i].block[1] = FrameShim
        /\ events[j].block = <<events[i].block[2]>>
        /\ events[j].block # <<FrameShim>>
        /\ SameEntry(i, j)

CountOf(key) == DictGet(backtraces, key).count

\* the completed event that was the first with this key
FirstSeen(key) ==
    CHOOSE i \in 1..Len(events) :
        events[i].key = key /\ \A j \in 1..(i - 1) : events[j].key # key

\* summary() went through its "Backtraces" section
BacktracesPrinted == \E i \in 1..Len(out) : out[i] = "Backtraces"

\* C7: the "Backtraces" section lists every backtrace key once, in ascending
\* order of call count, keys of equal count in the order they were first seen.
C7_SortedByCountStable ==
    BacktracesPrinted =>
        /\ Len(listed) = Len(backtraces)
        /\ {listed[i] : i \in 1..Len(listed)} = {events[i].key : i \in 1..Len(events)}
        /\ \A i, j \in 1..Len(listed) :
              i < j =>
                  /\ CountOf(listed[i]) <= CountOf(listed[j])
                  /\ CountOf(listed[i]) = CountOf(listed[j])
                        => FirstSeen(listed[i]) < FirstSeen(listed[j])

\* a report with two keys of equal count, listed before a key that was seen
\* before them
C7_Witness ==
    /\ BacktracesPrinted
    /\ Len(listed) = 3
    /\ CountOf(listed[1]) = CountOf(listed[2])
    /\ CountOf(listed[2]) < CountOf(listed[3])
    /\ FirstSeen(listed[3]) < FirstSeen(listed[1])

\* the last thread line read carried a call that no pattern matches
UnrecognisedCall == ev.read /\ LastCall.method = "None"

\* C8: an unrecognised method line ends the run with exit code 1, and no
\* section of the report is printed.
C8_UnrecognisedAborts ==
    UnrecognisedCall =>
        /\ pc = "done"
        /\ exitCode = 1
        /\ out = <<"Parsing">>
        /\ reported = <<>>
        /\ listed = <<>>

\* an unrecognised method line after a valid event
C8_Witness == UnrecognisedCall /\ Len(events) > 0 /\ pc = "done"

\* the last thread line read was a free of the null marker
FreeOfNil == LastCall.method = "free" /\ LastCall.g[1] = NIL

\* the entries of a table for the real addresses
RealEntries(d) == SelectSeq(d, LAMBDA e : e[1] # NIL)

\* C9: a free of the null marker records the size "null", whatever the
\* ledger holds, and leaves the ledger entry and the live backtrace of every
\* real address as they were.
C9_FreeOfNilLeavesLedger ==
    FreeOfNil =>
        /\ RealEntries(mallocs) = RealEntries(ev.mallocs)
        /\ RealEntries(membt) = RealEntries(ev.membt)
        /\ status # "THREAD" => allocSize = StrV(S_null)
        /\ AtBoundary =>
              LET sizes == DictGet(backtraces, events[Len(events)].key).free
              IN  sizes[Len(sizes)] = StrV(S_null)

\* a completed free of the null marker while a real address is live
C9_Witness ==
    /\ FreeOfNil
    /\ AtBoundary
    /\ \E a \in Addrs \ {NIL} : Concrete(mallocs, a) /\ DictHas(membt, a)

RECURSIVE FirstOccurrences(_)
\* a sequence without the repetitions of its elements
FirstOccurrences(q) ==
    IF Len(q) = 0 THEN <<>>
    ELSE LET front == FirstOccurrences(SubSeq(q, 1, Len(q) - 1))
         IN  IF \E i \in 1..Len(front) : front[i] = q[Len(q)]
             THEN front ELSE Append(front, q[Len(q)])

\* C10: over the resolve calls of a run, c++filt runs once per distinct
\* symbol, at the first resolve of that symbol, and the cache holds what it
\* printed.
C10_DemangledOnce ==
    /\ filtCalls = FirstOccurrences(resolves)
    /\ \A i \in 1..Len(resolves) :
          /\ DictHas(symbols_map, resolves[i])
          /\ DictGet(symbols_map, resolves[i]) = RStrip(CxxFilt(resolves[i]))

\* a symbol was resolved twice, and another one too
C10_Witness ==
    \E i, j, k \in 1..Len(resolves) :
        i < j /\ resolves[i] = resolves[j] /\ resolves[k] # resolves[i]

\* the line read last was handled as a frame of a backtrace block
FrameRead == last.branch = "frame"

\* the brackets and parentheses of a line, in order
Delimiters(l) == SelectSeq(l, LAMBDA c : c \in Brackets)

\* the text between the first '(' and the first ')' of a line
Group(l) ==
    LET open == CHOOSE i \in 1..Len(l) : l[i] = "(" /\ \A j \in 1..(i - 1) : l[j] # "("
        close == CHOOSE i \in 1..Len(l) : l[i] = ")" /\ \A j \in 1..(i - 1) : l[j] # ")"
    IN  SubSeq(l, open + 1, close - 1)

\* the frame grammar: one (...) group with one '+' in it, then one [...] group
WellFormedFrame(l) ==
    IF Delimiters(l) # <<"(", ")", "[", "]">> THEN FALSE
    ELSE Len(SelectSeq(Group(l), LAMBDA c : c = "+")) = 1

\* the run ended inside parse(), before any section of the report
AbortedWithoutReport == pc = "done" /\ exitCode = 1 /\ out = <<"Parsing">>

\* C11: a backtrace-body line that is not of the frame grammar aborts the run
\* without a report, and no such line is accepted as a frame of a block.
C11_MalformedFrameIsFatal ==
    /\ (FrameRead /\ ~WellFormedFrame(last.line)) => AbortedWithoutReport
    /\ \A i \in 1..Len(block) : WellFormedFrame(block[i])

\* s ends with t
EndsWith(s, t) == Len(s) >= Len(t) /\ SubSeq(s, Len(s) - Len(t) + 1, Len(s)) = t

\* C12: a frame line whose PATH contains parentheses is accepted, with that
\* PATH and the symbol, offset and address of its trailing groups.
C12_ParenthesesInPath ==
    (FrameRead /\ last.line = FrameParenPath) =>
        /\ pc = "parse"
        /\ Len(block) > 0
        /\ block[Len(block)] = FrameParenPath
        /\ EndsWith(currentBackTrace, FrameParenPath)

\* parse() went through its "Comments" section
CommentsPrinted == \E i \in 1..Len(out) : out[i] = "Comments"

\* the lines of a sequence that begin with '#'
HashLines(q) == SelectSeq(q, LAMBDA l : StartsWith(l, <<"#">>))

\* C13 as stated: the "Comments" section echoes every line read that begins
\* with '#', in the order read, whatever the status it was read in.
C13_EveryHashLineEchoed ==
    CommentsPrinted => HashLines(echoed) = hashed

\* C13 as amended: the "Comments" section echoes every line read that begins
\* with '#' and is longer than one character once its trailing whitespace is
\* stripped, in the order read, whatever the status it was read in; a line
\* that is '#' alone is not echoed.
C13_LongHashLinesEchoed ==
    CommentsPrinted => HashLines(echoed) = SelectSeq(hashed, LAMBDA l : Len(l) > 1)

\* the section echoes two different comments, one read after the method line
\* and the last one read inside the backtrace block, and skips a lone '#'
C13_Witness ==
    /\ CommentsPrinted
    /\ Len(hashed) = 3
    /\ Len(echoed) = 2
    /\ echoed[1] # echoed[2]
    /\ status = "BACKTRACE"
    /\ last.branch = "skip"
    /\ last.line = echoed[2]
    /\ hashed[1] = HashOnly

\* the event just completed is a free
CompletedFree == AtBoundary /\ LastCall.method = "free"

\* the size the backtrace statistics hold for the event just completed
RecordedSize ==
    LET sizes == DictGet(backtraces, events[Len(events)].key)[LastCall.method]
    IN  sizes[Len(sizes)]

\* C14 as stated: the size recorded for a free is "null" for the null marker,
\* the concrete size the ledger held for the address, and the unknown marker
\* otherwise; never a sentinel.
C14_FreeSizeNeverSentinel ==
    CompletedFree =>
        /\ RecordedSize =
              (IF LastCall.g[1] = NIL THEN StrV(S_null)
               ELSE IF Concrete(ev.mallocs, LastCall.g[1])
                    THEN DictGet(ev.mallocs, LastCall.g[1])
               ELSE StrV(S_unknown))
        /\ RecordedSize \notin Sentinels

\* C14 as amended: the size recorded for a free is "null" for the null
\* marker, otherwise the value the ledger held for the address, which is a
\* sentinel when the address was freed or realloc'ed away before, and the
\* unknown marker '???' when the ledger had no entry.
C14_FreeSizeIsLedgerValue ==
    CompletedFree =>
        RecordedSize =
            (IF LastCall.g[1] = NIL THEN StrV(S_null)
             ELSE IF DictHas(ev.mallocs, LastCall.g[1])
                  THEN DictGet(ev.mallocs, LastCall.g[1])
             ELSE StrV(S_unknown))

\* a second free of an address that was allocated and freed
C14_Witness ==
    /\ CompletedFree
    /\ Len(events) = 3
    /\ CallOf(1).method = "malloc"
    /\ CallOf(2) = LastCall
    /\ RecordedSize = StrV(ALREADY_FREED)

\* C15: at an event boundary, every address of the live-backtrace table is
\* associated with the backtrace key of the most recent completed allocating
\* event that returned it.
C15_BacktraceOfLastAllocation ==
    AtBoundary =>
        \A a \in DictKeys(membt) :
            /\ AllocationsOf(a) # {}
            /\ DictGet(membt, a) = events[LastAllocation(a)].key

\* an address returned by two allocating events with different backtrace keys
C15_Witness ==
    /\ AtBoundary
    /\ \E a \in DictKeys(membt) :
          \E i \in AllocationsOf(a) :
              /\ i < LastAllocation(a)
              /\ events[i].key # events[LastAllocation(a)].key

\* summary() went through its "Memory not released" section
MemoryPrinted == pc = "done" /\ \E i \in 1..Len(out) : out[i] = "Memory not released"

\* every size of the ledger is a str
StrSizes == \A i \in 1..Len(mallocs) : mallocs[i][2].t = "str"

\* C16: whatever the status at the end of the input, the report prints every
\* ledger entry with a concrete size, with an empty backtrace for an address
\* that has none, and does not fail on a missing backtrace.
C16_ReportWithoutBacktrace ==
    (MemoryPrinted /\ StrSizes) =>
        /\ exitCode = 0
        /\ \A a \in DictKeys(mallocs) :
              (Concrete(mallocs, a) /\ IsPrinted(DictGet(mallocs, a))) =>
                  \E i \in 1..Len(reported) :
                      /\ reported[i].address = a
                      /\ reported[i].size = DictGet(mallocs, a)
                      /\ reported[i].backtrace =
                            (IF DictHas(membt, a) THEN DictGet(membt, a) ELSE <<>>)

\* the line read last was read as the opening line of a backtrace block
OpeningRead == last.branch = "start"

\* C17: after a method line, the first line that is not skipped opens the
\* block if it is '[' and otherwise aborts the run without a report; the
\* status becomes BACKTRACE only by reading '[' as the opening line, and an
\* event is completed only from status BACKTRACE.
C17_OpeningBracketRequired ==
    /\ [](OpeningRead =>
             IF last.line = <<"[">> THEN status = "BACKTRACE" /\ ~AbortedWithoutReport
             ELSE AbortedWithoutReport)
    /\ [][(status' = "BACKTRACE" /\ status # "BACKTRACE") =>
             (last'.branch = "start" /\ last'.line = <<"[">>)]_vars
    /\ [][Len(events') > Len(events) => status = "BACKTRACE"]_vars

\* after a completed event, a method line followed by a line that is not '['
C17_Witness ==
    /\ OpeningRead
    /\ last.line # <<"[">>
    /\ Len(events) > 0
    /\ AbortedWithoutReport

\* C18: an allocating call whose result is the null marker creates no ledger
\* entry with a concrete size, and the null marker is never printed under
\* "Memory not released".
C18_NullResultNotRecorded ==
    /\ ~Concrete(mallocs, NIL)
    /\ ~IsReported(NIL)

\* the keys of the per-method lists of a statistics record
MethodNames ==
    <<"malloc", "free", "realloc", "calloc", "aligned_alloc", "posix_memalign", "memalign">>

RECURSIVE SizesHeld(_, _)
\* the number of sizes in the first n per-method lists of the record st
SizesHeld(st, n) ==
    IF n = 0 THEN 0 ELSE SizesHeld(st, n - 1) + Len(st[MethodNames[n]])

RECURSIVE CountsUpTo(_)
\* the sum of the counts of the first n entries of backtraces
CountsUpTo(n) ==
    IF n = 0 THEN 0 ELSE CountsUpTo(n - 1) + backtraces[n][2].count

\* C19: the count of every backtrace key is the number of sizes in its seven
\* per-method lists, and the counts add up to the number of blocks closed.
C19_CountsMatchSizes ==
    /\ \A i \in 1..Len(backtraces) :
          backtraces[i][2].count = SizesHeld(backtraces[i][2], Len(MethodNames))
    /\ CountsUpTo(Len(backtraces)) = Len(events)

\* one key counted twice, under two methods
C19_Witness ==
    \E i \in 1..Len(backtraces) :
        /\ backtraces[i][2].count = 2
        /\ Len(backtraces[i][2].malloc) = 1
        /\ Len(backtraces[i][2].free) = 1

\* the addresses whose ledger entry is not a sentinel
NotSentinel == {a \in DictKeys(mallocs) : Concrete(mallocs, a)}

\* C20: at an event boundary, the addresses of the live-backtrace table are
\* the ledger keys whose value is not a sentinel.
C20_LiveIffNotSentinel ==
    AtBoundary => DictKeys(membt) = NotSentinel

\* a boundary with a live address and a realloc'ed-away address
C20_Witness ==
    /\ AtBoundary
    /\ DictKeys(membt) # {}
    /\ \E a \in DictKeys(mallocs) : DictGet(mallocs, a) = StrV(ALREADY_REALLOCED)
    /\ \E a \in DictKeys(mallocs) : a \notin DictKeys(membt)

=============================================================================
